---- MODULE Spec2Model ----
(***************************************************************************)
(* A model of aoclib.parsing: Parser objects live in a heap (their slots   *)
(* are the record fields), the combinators allocate new objects, and       *)
(* Parser.run is a recursive operator over the heap.                       *)
(*                                                                         *)
(* Texts are sequences of one-character strings; positions are 0-based as  *)
(* in Python (the character at Python index k is s[k+1]).                  *)
(***************************************************************************)
EXTENDS Integers, Sequences, FiniteSets, TLC

VARIABLES heap, cache, rec, made, last

vars == <<heap, cache, rec, made, last>>

(***************************************************************************)
(* Parse results (Python values).                                          *)
(***************************************************************************)
NoneV == [t |-> "none"]

SKIP == [t |-> "SKIP"]

RAISE == [t |-> "raise"]

StrV(x) == [t |-> "str", v |-> x]

IntV(n) == [t |-> "int", v |-> n]

ListV(x) == [t |-> "list", v |-> x]

TupleV(x) == [t |-> "tuple", v |-> x]

Tagged(tag, result) == [t |-> "tagged", tag |-> tag, v |-> result]

(***************************************************************************)
(* What a call of run returns: None, (result, i), or it does not return    *)
(* (an exception propagates, or the call never ends).                      *)
(***************************************************************************)
RetNone == [st |-> "none"]

Ret(result, i) == [st |-> "ok", r |-> result, i |-> i]

Raised == [st |-> "raise"]

Hangs == [st |-> "hang"]

(* What parse returns: a bare value (None included). *)
Value(v) == [st |-> "ret", v |-> v]

(***************************************************************************)
(* Text helpers: str.startswith, \s*, and the regular expressions used.    *)
(***************************************************************************)
IsSpace(c) == c \in {" ", "\t", "\n", "\r"}

IsDigit(c) == c \in {"0", "1", "2", "3", "4", "5", "6", "7", "8", "9"}

IsLower(c) ==
    c \in {"a", "b", "c", "d", "e", "f", "g", "h", "i", "j", "k", "l", "m",
           "n", "o", "p", "q", "r", "s", "t", "u", "v", "w", "x", "y", "z"}

RECURSIVE WsEnd(_, _)
WsEnd(s, i) ==
    IF i >= Len(s) THEN Len(s)
    ELSE IF IsSpace(s[i + 1]) THEN WsEnd(s, i + 1) ELSE i

RECURSIVE DigitsEnd(_, _)
DigitsEnd(s, i) ==
    IF i < Len(s) /\ IsDigit(s[i + 1]) THEN DigitsEnd(s, i + 1) ELSE i

RECURSIVE LowerEnd(_, _)
LowerEnd(s, i) ==
    IF i < Len(s) /\ IsLower(s[i + 1]) THEN LowerEnd(s, i + 1) ELSE i

StartsWith(s, z, i) ==
    /\ i + Len(z) <= Len(s)
    /\ SubSeq(s, i + 1, i + Len(z)) = z

Slice(s, i, j) == SubSeq(s, i + 1, j)

DigitVal(c) ==
    CASE c = "0" -> 0 [] c = "1" -> 1 [] c = "2" -> 2 [] c = "3" -> 3
      [] c = "4" -> 4 [] c = "5" -> 5 [] c = "6" -> 6 [] c = "7" -> 7
      [] c = "8" -> 8 [] c = "9" -> 9

RECURSIVE IntOf(_)
IntOf(x) ==
    IF x = <<>> THEN 0
    ELSE 10 * IntOf(SubSeq(x, 1, Len(x) - 1)) + DigitVal(x[Len(x)])

IsDigits(x) == Len(x) > 0 /\ \A k \in 1..Len(x) : IsDigit(x[k])

(***************************************************************************)
(* Parser objects.  NoTag stands for tag None, AtMostNone for at_most      *)
(* None; ref = 0 is a ParserRef whose _ref slot is not set yet.            *)
(***************************************************************************)
NoTag == "<None>"

AtMostNone == -1

Alloc(m, obj) ==
    [m |-> [m EXCEPT !.heap = Append(@, obj)], id |-> Len(m.heap) + 1]

ParserInit(m, parse_fn, conversions, trim_ws, tag) ==
    Alloc(m, [cls |-> "Parser", parse_fn |-> parse_fn,
              conversions |-> conversions, trim_ws |-> trim_ws, tag |-> tag,
              parsers |-> <<>>, ref |-> 0])

(* return type(self)(...) instead of Parser(...): the copy of a composite  *)
(* is still a composite with the same children.                            *)
CopyWithSameClass(m, self, kwargs) ==
    LET o == m.heap[self]
        given == IF "conversions" \in DOMAIN kwargs
                 THEN kwargs.conversions ELSE <<>>
        convs == IF Len(o.conversions) > 0
                 THEN o.conversions \o given ELSE given
        trim == IF "trim_ws" \in DOMAIN kwargs
                 THEN kwargs.trim_ws ELSE o.trim_ws
        tg == IF "tag" \in DOMAIN kwargs THEN kwargs.tag ELSE o.tag
    IN  Alloc(m, [cls |-> o.cls, parse_fn |-> o.parse_fn,
                  conversions |-> convs, trim_ws |-> trim, tag |-> tg,
                  parsers |-> o.parsers, ref |-> o.ref])

(* A copy that writes the new settings into the receiver itself. *)
CopyWithInPlace(m, self, kwargs) ==
    LET o == m.heap[self]
        given == IF "conversions" \in DOMAIN kwargs
                 THEN kwargs.conversions ELSE <<>>
        trim == IF "trim_ws" \in DOMAIN kwargs
                 THEN kwargs.trim_ws ELSE o.trim_ws
        tg == IF "tag" \in DOMAIN kwargs THEN kwargs.tag ELSE o.tag
    IN  [m |-> [m EXCEPT !.heap[self] =
                    [o EXCEPT !.conversions = @ \o given,
                              !.trim_ws = trim, !.tag = tg]],
         id |-> self]

CopyWith(m, self, kwargs) ==
    LET o == m.heap[self]
        given == IF "conversions" \in DOMAIN kwargs
                 THEN kwargs.conversions ELSE <<>>
        convs == IF Len(o.conversions) > 0
                 THEN o.conversions \o given ELSE given
        trim == IF "trim_ws" \in DOMAIN kwargs
                 THEN kwargs.trim_ws ELSE o.trim_ws
        tg == IF "tag" \in DOMAIN kwargs THEN kwargs.tag ELSE o.tag
    IN  ParserInit(m, o.parse_fn, convs, trim, tg)

Self(m, self) == [m |-> m, id |-> self]

UserFn(name) == [c |-> "fn", f |-> name]

Conv(m, self, fns) ==
    IF fns = <<>> THEN Self(m, self)
    ELSE CopyWith(m, self, [conversions |-> [k \in 1..Len(fns) |-> UserFn(fns[k])]])

ZipConv(m, self, fns) ==
    IF \A k \in 1..Len(fns) : fns[k] = "None" THEN Self(m, self)
    ELSE CopyWith(m, self, [conversions |-> <<[c |-> "zip", fns |-> fns]>>])

Const(m, self, val) ==
    CopyWith(m, self, [conversions |-> <<[c |-> "const", v |-> val]>>])

Skip(m, self) ==
    CopyWith(m, self, [conversions |-> <<[c |-> "skip"]>>, tag |-> NoTag])

TrimWs(m, self, enable) ==
    IF m.heap[self].trim_ws = enable THEN Self(m, self)
    ELSE CopyWith(m, self, [trim_ws |-> enable])

Tag(m, self, tag) ==
    IF m.heap[self].tag = tag THEN Self(m, self)
    ELSE CopyWith(m, self, [tag |-> tag])

(***************************************************************************)
(* _ParserList.__init__: children of the same (unfinalized) class are      *)
(* merged into the new child tuple.                                        *)
(***************************************************************************)
(* flattened = p._parsers instead of flattened.extend(p._parsers): what    *)
(* was accumulated before a merged child is lost.                          *)
RECURSIVE FlattenAssign(_, _, _, _)
FlattenAssign(h, to_flatten, parsers, k) ==
    IF k > Len(parsers) THEN <<>>
    ELSE LET p == parsers[k]
             me == IF h[p].cls = to_flatten THEN h[p].parsers ELSE <<p>>
             rest == FlattenAssign(h, to_flatten, parsers, k + 1)
         IN  IF \E j \in (k + 1)..Len(parsers) : h[parsers[j]].cls = to_flatten
             THEN rest ELSE me \o rest

RECURSIVE Flatten(_, _, _, _)
Flatten(h, to_flatten, parsers, k) ==
    IF k > Len(parsers) THEN <<>>
    ELSE LET p == parsers[k]
             me == IF h[p].cls = to_flatten THEN h[p].parsers ELSE <<p>>
         IN  me \o Flatten(h, to_flatten, parsers, k + 1)

ParserListInit(m, cls, parsers) ==
    LET flattened == Flatten(m.heap, cls, parsers, 1)
    IN  Alloc(m, [cls |-> cls,
                  parse_fn |-> [op |-> "do_parse", cls |-> cls,
                                parsers |-> flattened],
                  conversions |-> <<>>, trim_ws |-> FALSE, tag |-> NoTag,
                  parsers |-> flattened, ref |-> 0])

Add(m, self, other) == ParserListInit(m, "_ParserChain", <<self, other>>)

Or(m, self, other) == ParserListInit(m, "_ParserFirstMatch", <<self, other>>)

(***************************************************************************)
(* The cached atomic constructors (functools.cache keyed by the argument). *)
(***************************************************************************)
CacheHit(c, key) ==
    IF \E k \in 1..Len(c) : c[k].key = key
    THEN c[CHOOSE k \in 1..Len(c) : c[k].key = key].id
    ELSE 0

Cached(m, key, trim_ws) ==
    IF CacheHit(m.cache, key) # 0 THEN Self(m, CacheHit(m.cache, key))
    ELSE LET r == ParserInit(m, key, <<>>, trim_ws, NoTag)
         IN  [m |-> [r.m EXCEPT !.cache = Append(@, [key |-> key, id |-> r.id])],
              id |-> r.id]

Ex(m, z) == Cached(m, [op |-> "ex", z |-> z], TRUE)

Regex(m, z) == Cached(m, [op |-> "regex", patt |-> z], TRUE)

Chomp(m, n) == Cached(m, [op |-> "chomp", n |-> n], FALSE)

Star(m, p, at_least, at_most) ==
    ParserInit(m, [op |-> "star", p |-> p, at_least |-> at_least,
                   at_most |-> at_most], <<>>, FALSE, NoTag)

(* sep is [str |-> z] for a string and [parser |-> id] for a Parser. *)
SepList(m, p, sep) ==
    LET s1 == IF "str" \in DOMAIN sep THEN Ex(m, sep.str) ELSE Self(m, sep.parser)
        s2 == Skip(s1.m, s1.id)
        s3 == Add(s2.m, s2.id, p)
        s4 == Star(s3.m, s3.id, 0, AtMostNone)
    IN  Add(s4.m, p, s4.id)

Contextual(m, context_parser, recipe_fn) ==
    ParserInit(m, [op |-> "contextual", ctx |-> context_parser,
                   recipe |-> recipe_fn], <<>>, FALSE, NoTag)

ParserRefInit(m) ==
    Alloc(m, [cls |-> "ParserRef",
              parse_fn |-> [op |-> "run_ref", self |-> Len(m.heap) + 1],
              conversions |-> <<>>, trim_ws |-> FALSE, tag |-> NoTag,
              parsers |-> <<>>, ref |-> 0])

(* A set_ref that forgets the assignment. *)
SetRefLost(h, tbd, p) == h

SetRef(h, tbd, p) == [h EXCEPT ![tbd].ref = p]

(***************************************************************************)
(* The primitive match functions of the atoms.                             *)
(***************************************************************************)
ExParse(z, s, i) ==
    IF ~StartsWith(s, z, i) THEN RetNone ELSE Ret(NoneV, i + Len(z))

(* re.match at position i for the patterns in use; the result follows the  *)
(* number of capturing groups (two or more: the tuple of groups, an        *)
(* unmatched optional group being None; none: the matched text).           *)
RegexParse(z, s, i) ==
    CASE z = "[0-9]+" ->
           IF DigitsEnd(s, i) = i THEN RetNone
           ELSE Ret(StrV(Slice(s, i, DigitsEnd(s, i))), DigitsEnd(s, i))
      [] z = "[a-z]+" ->
           IF LowerEnd(s, i) = i THEN RetNone
           ELSE Ret(StrV(Slice(s, i, LowerEnd(s, i))), LowerEnd(s, i))
      [] z = "([0-9])([a-z])?" ->
           IF ~(i < Len(s) /\ IsDigit(s[i + 1])) THEN RetNone
           ELSE IF i + 1 < Len(s) /\ IsLower(s[i + 2])
                THEN Ret(TupleV(<<StrV(<<s[i + 1]>>), StrV(<<s[i + 2]>>)>>), i + 2)
                ELSE Ret(TupleV(<<StrV(<<s[i + 1]>>), NoneV>>), i + 1)

ChompParse(n, s, i) ==
    IF ~(i + n <= Len(s)) THEN RetNone ELSE Ret(StrV(Slice(s, i, i + n)), i + n)

(***************************************************************************)
(* Conversions.  A conversion returns a value, None (NoneV: the parse      *)
(* fails), the SKIP sentinel, or raises (RAISE).                           *)
(***************************************************************************)
Falsy(r) ==
    \/ r.t = "none"
    \/ r.t \in {"str", "list", "tuple"} /\ Len(r.v) = 0
    \/ r.t = "int" /\ r.v = 0

(* The callables handed to conv / zipconv: int, list, lambda r: r or None *)
CallFn(f, r) ==
    CASE f = "int" ->
           IF r.t = "int" THEN r
           ELSE IF r.t = "str" /\ IsDigits(r.v) THEN IntV(IntOf(r.v))
           ELSE RAISE
      [] f = "list" ->
           IF r.t \in {"list", "tuple"} THEN ListV(r.v)
           ELSE IF r.t = "str" THEN ListV([k \in 1..Len(r.v) |-> StrV(<<r.v[k]>>)])
           ELSE IF r.t = "tagged" THEN ListV(<<StrV(<<r.tag>>), r.v>>)
           ELSE RAISE
      [] f = "nonempty" -> IF Falsy(r) THEN NoneV ELSE r

RECURSIVE ZipElems(_, _, _)
ZipElems(fns, elems, k) ==
    IF k > Len(fns) \/ k > Len(elems) THEN elems
    ELSE IF fns[k] = "None" THEN ZipElems(fns, elems, k + 1)
    ELSE LET e == CallFn(fns[k], elems[k])
         IN  IF e = RAISE THEN <<RAISE>>
             ELSE ZipElems(fns, [elems EXCEPT ![k] = e], k + 1)

ElemConverter(fns, result) ==
    LET elems == IF result.t = "tagged"
                 THEN <<StrV(<<result.tag>>), result.v>> ELSE result.v
        out == ZipElems(fns, elems, 1)
    IN  IF result.t \notin {"tuple", "list", "tagged"} THEN RAISE
        ELSE IF out = <<RAISE>> THEN RAISE
        ELSE IF result.t = "list" THEN ListV(out) ELSE TupleV(out)

ApplyConv(c, result) ==
    CASE c.c = "fn" -> CallFn(c.f, result)
      [] c.c = "zip" -> ElemConverter(c.fns, result)
      [] c.c = "const" -> c.v
      [] c.c = "skip" -> SKIP

RECURSIVE Convert(_, _, _)
Convert(conversions, k, result) ==
    IF k > Len(conversions) THEN Value(result)
    ELSE LET r == ApplyConv(conversions[k], result)
         IN  IF r = SKIP THEN Convert(conversions, k + 1, NoneV)
             ELSE IF r = NoneV THEN RetNone
             ELSE IF r = RAISE THEN Raised
             ELSE Convert(conversions, k + 1, r)

(* _add_result without the isinstance(sub_result, list) branch: a list is  *)
(* appended whole.                                                         *)
AddResultNested(acc, sub_result) ==
    IF sub_result.t # "none" THEN Append(acc, sub_result) ELSE acc

(* _add_result *)
AddResult(acc, sub_result) ==
    IF sub_result.t = "list"
    THEN acc \o SelectSeq(sub_result.v, LAMBDA z : z.t # "none")
    ELSE IF sub_result.t # "none" THEN Append(acc, sub_result)
    ELSE acc

(***************************************************************************)
(* The recipes handed to contextual: functions from the context result to  *)
(* a Parser, built over a parser tok they close over.                      *)
(*   count:  lambda n: star(tok, at_least=n, at_most=n)   (n an int)       *)
(*   echo:   lambda c: tok.const(c)                                        *)
(***************************************************************************)
CallRecipe(h, recipe_fn, context) ==
    LET m == [heap |-> h, cache |-> <<>>]
    IN  CASE recipe_fn.name = "count" ->
               IF context.t # "int" THEN [raised |-> TRUE]
               ELSE LET r == Star(m, recipe_fn.tok, context.v, context.v)
                    IN  [raised |-> FALSE, h |-> r.m.heap, id |-> r.id]
          [] recipe_fn.name = "echo" ->
               LET r == Const(m, recipe_fn.tok, context)
               IN  [raised |-> FALSE, h |-> r.m.heap, id |-> r.id]

(***************************************************************************)
(* Parser.run and the primitive functions of the combinators.              *)
(***************************************************************************)
RECURSIVE Run(_, _, _, _)
RECURSIVE ParseFn(_, _, _, _)
RECURSIVE ChainDoParse(_, _, _, _, _, _)
RECURSIVE FirstMatchDoParse(_, _, _, _, _)
RECURSIVE LastMatchDoParse(_, _, _, _, _)
RECURSIVE StarParse(_, _, _, _, _, _)
RECURSIVE StarParseCommit(_, _, _, _, _, _)
RECURSIVE ContextualParse(_, _, _, _)

Finish(o, s, ret, conv) ==
    IF conv.st # "ret" THEN conv
    ELSE Ret(IF o.tag # NoTag THEN Tagged(o.tag, conv.v) ELSE conv.v,
             IF o.trim_ws THEN WsEnd(s, ret.i) ELSE ret.i)

Run(h, p, s, i) ==
    LET o == h[p]
        ret == ParseFn(h, o.parse_fn, s, IF o.trim_ws THEN WsEnd(s, i) ELSE i)
    IN  IF ret.st # "ok" THEN ret
        ELSE Finish(o, s, ret, Convert(o.conversions, 1, ret.r))

ChainDoParse(h, parsers, k, s, i, results) ==
    IF k > Len(parsers) THEN Ret(ListV(results), i)
    ELSE LET parse_ret == Run(h, parsers[k], s, i)
         IN  IF parse_ret.st # "ok" THEN parse_ret
             ELSE ChainDoParse(h, parsers, k + 1, s, parse_ret.i,
                               AddResult(results, parse_ret.r))

(* A loop that keeps going after a success: the last child to match wins. *)
LastMatchDoParse(h, parsers, k, s, i) ==
    IF k > Len(parsers) THEN RetNone
    ELSE LET parse_ret == Run(h, parsers[k], s, i)
             later == LastMatchDoParse(h, parsers, k + 1, s, i)
         IN  IF parse_ret.st = "none" \/ later.st = "ok" THEN later
             ELSE parse_ret

FirstMatchDoParse(h, parsers, k, s, i) ==
    IF k > Len(parsers) THEN RetNone
    ELSE LET parse_ret == Run(h, parsers[k], s, i)
         IN  IF parse_ret.st # "none" THEN parse_ret
             ELSE FirstMatchDoParse(h, parsers, k + 1, s, i)

(* A star that returns what it has matched when rep_count < at_least. *)
StarParseCommit(h, fn, s, i, rep_count, results) ==
    LET done == Ret(ListV(results), i)
    IN  IF ~(fn.at_most = AtMostNone \/ rep_count < fn.at_most) THEN done
        ELSE LET parse_ret == Run(h, fn.p, s, i)
             IN  IF parse_ret.st = "none" THEN done
                 ELSE IF parse_ret.st # "ok" THEN parse_ret
                 ELSE IF fn.at_most = AtMostNone /\ parse_ret.i = i THEN Hangs
                 ELSE StarParseCommit(h, fn, s, parse_ret.i, rep_count + 1,
                                      AddResult(results, parse_ret.r))

(* The while loop of star.  With at_most None, a success that consumes     *)
(* nothing repeats the same iteration for ever.                            *)
StarParse(h, fn, s, i, rep_count, results) ==
    LET done == IF rep_count < fn.at_least THEN RetNone
                ELSE Ret(ListV(results), i)
    IN  IF ~(fn.at_most = AtMostNone \/ rep_count < fn.at_most) THEN done
        ELSE LET parse_ret == Run(h, fn.p, s, i)
             IN  IF parse_ret.st = "none" THEN done
                 ELSE IF parse_ret.st # "ok" THEN parse_ret
                 ELSE IF fn.at_most = AtMostNone /\ parse_ret.i = i THEN Hangs
                 ELSE StarParse(h, fn, s, parse_ret.i, rep_count + 1,
                                AddResult(results, parse_ret.r))

(* A contextual parser that calls the recipe before looking at the        *)
(* context parser's outcome.                                               *)
ContextualParseEager(h, fn, s, i) ==
    LET context_ret == Run(h, fn.ctx, s, i)
        new_parser == CallRecipe(h, fn.recipe,
                                 IF context_ret.st = "ok" THEN context_ret.r
                                 ELSE NoneV)
    IN  IF new_parser.raised THEN Raised
        ELSE IF context_ret.st # "ok" THEN context_ret
        ELSE Run(new_parser.h, new_parser.id, s, context_ret.i)

(* How many times the while loop of star calls p.run, and whether the loop *)
(* ends: with at_most None, a success that consumes nothing is followed by *)
(* the same call again, without end.                                       *)
RECURSIVE StarCalls(_, _, _, _, _, _)
StarCalls(h, fn, s, i, rep_count, calls) ==
    IF ~(fn.at_most = AtMostNone \/ rep_count < fn.at_most)
    THEN [ends |-> TRUE, calls |-> calls]
    ELSE LET parse_ret == Run(h, fn.p, s, i)
         IN  IF parse_ret.st # "ok"
             THEN [ends |-> parse_ret.st # "hang", calls |-> calls + 1]
             ELSE IF fn.at_most = AtMostNone /\ parse_ret.i = i
             THEN [ends |-> FALSE, calls |-> calls + 1]
             ELSE StarCalls(h, fn, s, parse_ret.i, rep_count + 1, calls + 1)

ContextualParse(h, fn, s, i) ==
    LET context_ret == Run(h, fn.ctx, s, i)
    IN  IF context_ret.st # "ok" THEN context_ret
        ELSE LET new_parser == CallRecipe(h, fn.recipe, context_ret.r)
             IN  IF new_parser.raised THEN Raised
                 ELSE Run(new_parser.h, new_parser.id, s, context_ret.i)

RunRef(h, self, s, i) ==
    IF h[self].ref = 0 THEN Raised ELSE Run(h, h[self].ref, s, i)

ParseFn(h, fn, s, i) ==
    CASE fn.op = "ex" -> ExParse(fn.z, s, i)
      [] fn.op = "regex" -> RegexParse(fn.patt, s, i)
      [] fn.op = "chomp" -> ChompParse(fn.n, s, i)
      [] fn.op = "do_parse" /\ fn.cls = "_ParserChain" ->
           ChainDoParse(h, fn.parsers, 1, s, i, <<>>)
      [] fn.op = "do_parse" /\ fn.cls = "_ParserFirstMatch" ->
           FirstMatchDoParse(h, fn.parsers, 1, s, i)
      [] fn.op = "star" -> StarParse(h, fn, s, i, 0, <<>>)
      [] fn.op = "contextual" -> ContextualParse(h, fn, s, i)
      [] fn.op = "run_ref" -> RunRef(h, fn.self, s, i)

Parse(h, p, s) ==
    LET parse_ret == Run(h, p, s, 0)
    IN  IF parse_ret.st = "none" THEN Value(NoneV)
        ELSE IF parse_ret.st # "ok" THEN parse_ret
        ELSE IF parse_ret.i # Len(s) THEN Value(NoneV)
        ELSE Value(parse_ret.r)

(***************************************************************************)
(* recursive(): the recipes used, and the frame of a call in progress.     *)
(*   parens (arity 1):  lambda A: ex("(") + star(A, 0, 1) + ex(")")        *)
(*   nested (arity 2):  lambda A, B: (ex("(") + B + ex(")"),               *)
(*                                    star(A, 0, 1))                       *)
(***************************************************************************)
RecipeArity(recipe_fn) == IF recipe_fn = "parens" THEN 1 ELSE 2

CallRecursiveRecipe(m, recipe_fn, tbds) ==
    LET open == Ex(m, <<"(">>)
    IN  IF recipe_fn = "parens"
        THEN LET inner == Star(open.m, tbds[1], 0, 1)
                 c1 == Add(inner.m, open.id, inner.id)
                 close == Ex(c1.m, <<")">>)
                 c2 == Add(close.m, c1.id, close.id)
             IN  [m |-> c2.m, actuals |-> <<c2.id>>]
        ELSE LET c1 == Add(open.m, open.id, tbds[2])
                 close == Ex(c1.m, <<")">>)
                 c2 == Add(close.m, c1.id, close.id)
                 inner == Star(c2.m, tbds[1], 0, 1)
             IN  [m |-> inner.m, actuals |-> <<c2.id, inner.id>>]

RECURSIVE MakeRefs(_, _)
MakeRefs(m, n) ==
    IF n = 0 THEN [m |-> m, tbds |-> <<>>]
    ELSE LET before == MakeRefs(m, n - 1)
             r == ParserRefInit(before.m)
         IN  [m |-> r.m, tbds |-> Append(before.tbds, r.id)]

NoFrame == [pc |-> "idle"]

(***************************************************************************)
(* Bounds and the inputs the actions draw from.                            *)
(***************************************************************************)
MaxHeap == 2

MaxRunLen == 1

MaxLen == 3

Texts(alphabet, n) == UNION {[1..k -> alphabet] : k \in 0..n}

Alphabet == {"(", "1"}

ExArgs == {<<"(">>}

RegexArgs == {"([0-9])([a-z])?"}

ChompArgs == {1}

FnLists == {<<>>, <<"int">>, <<"list", "nonempty">>}

ZipFnLists == {<<"None">>, <<"int">>}

ConstVals == {NoneV, IntV(7)}

Tags == {"x"}

Bounds == {<<0, AtMostNone>>, <<1, 2>>}

(***************************************************************************)
(* The state machine: one action per call of the API.  last records the    *)
(* most recent call and what it returned.                                  *)
(***************************************************************************)
M == [heap |-> heap, cache |-> cache]

Ids == 1..Len(heap)

Idle == rec.pc = "idle"

CanBuild == Idle

Room == Len(heap) < MaxHeap

NoCall == [op |-> "none"]

(* A constructor call: made records the call and the parser it returned.  *)
Built(call, r) ==
    /\ heap' = r.m.heap
    /\ cache' = r.m.cache
    /\ made' = call @@ [ret |-> r.id]
    /\ last' = NoCall
    /\ UNCHANGED rec

ExAct(z) == CanBuild /\ Built([op |-> "ex", z |-> z], Ex(M, z))

RegexAct(z) == CanBuild /\ Built([op |-> "regex", patt |-> z], Regex(M, z))

ChompAct(n) == CanBuild /\ Built([op |-> "chomp", n |-> n], Chomp(M, n))

ConvAct(p, fns) ==
    CanBuild /\ Built([op |-> "conv", self |-> p, fns |-> fns], Conv(M, p, fns))

ZipConvAct(p, fns) ==
    CanBuild /\ Built([op |-> "zipconv", self |-> p, fns |-> fns], ZipConv(M, p, fns))

ConstAct(p, val) ==
    CanBuild /\ Built([op |-> "const", self |-> p, val |-> val], Const(M, p, val))

SkipAct(p) == CanBuild /\ Built([op |-> "skip", self |-> p], Skip(M, p))

TrimWsAct(p, enable) ==
    CanBuild /\ Built([op |-> "trim_ws", self |-> p, enable |-> enable],
                      TrimWs(M, p, enable))

TagAct(p, tag) ==
    CanBuild /\ Built([op |-> "tag", self |-> p, tag |-> tag], Tag(M, p, tag))

AddAct(p, q) ==
    CanBuild /\ Built([op |-> "add", self |-> p, other |-> q], Add(M, p, q))

OrAct(p, q) ==
    CanBuild /\ Built([op |-> "or", self |-> p, other |-> q], Or(M, p, q))

StarAct(p, at_least, at_most) ==
    CanBuild /\ Built([op |-> "star", self |-> p, at_least |-> at_least,
                       at_most |-> at_most], Star(M, p, at_least, at_most))

SepListAct(p, sep) ==
    CanBuild /\ Built([op |-> "seplist", self |-> p, sep |-> sep],
                      SepList(M, p, sep))

ContextualAct(p, recipe_fn) ==
    CanBuild /\ Built([op |-> "contextual", self |-> p, recipe |-> recipe_fn],
                      Contextual(M, p, recipe_fn))

(* recursive(): make the placeholders and call the recipe ... *)
RecursiveCall(recipe_fn) ==
    /\ CanBuild
    /\ LET refs == MakeRefs(M, RecipeArity(recipe_fn))
           actual == CallRecursiveRecipe(refs.m, recipe_fn, refs.tbds)
       IN  /\ heap' = actual.m.heap
           /\ cache' = actual.m.cache
           /\ rec' = [pc |-> "bind", arity |-> RecipeArity(recipe_fn),
                      tbds |-> refs.tbds, actuals |-> actual.actuals, k |-> 1]
    /\ made' = [op |-> "recursive_call", recipe_name |-> recipe_fn]
    /\ last' = NoCall

(* ... bind each placeholder to its definition, in order ... *)
RecursiveBind ==
    /\ rec.pc = "bind"
    /\ rec.k <= Len(rec.tbds) /\ rec.k <= Len(rec.actuals)
    /\ heap' = SetRef(heap, rec.tbds[rec.k], rec.actuals[rec.k])
    /\ rec' = [rec EXCEPT !.k = @ + 1]
    /\ UNCHANGED <<cache, made, last>>

(* ... and return the definitions. *)
RecursiveReturn ==
    /\ rec.pc = "bind"
    /\ ~(rec.k <= Len(rec.tbds) /\ rec.k <= Len(rec.actuals))
    /\ made' = [op |-> "recursive", recipe_name |-> made.recipe_name,
                arity |-> rec.arity, tbds |-> rec.tbds,
                actuals |-> rec.actuals]
    /\ rec' = NoFrame
    /\ UNCHANGED <<heap, cache, last>>

RunAct(p, s, i) ==
    /\ Idle
    /\ last' = [op |-> "run", p |-> p, s |-> s, i |-> i, ret |-> Run(heap, p, s, i)]
    /\ UNCHANGED <<heap, cache, rec, made>>

ParseAct(p, s) ==
    /\ Idle
    /\ last' = [op |-> "parse", p |-> p, s |-> s, ret |-> Parse(heap, p, s)]
    /\ UNCHANGED <<heap, cache, rec, made>>

Init ==
    /\ heap = <<>>
    /\ cache = <<>>
    /\ rec = NoFrame
    /\ made = NoCall
    /\ last = NoCall

Build ==
    \/ \E z \in ExArgs : ExAct(z)
    \/ \E z \in RegexArgs : RegexAct(z)
    \/ \E n \in ChompArgs : ChompAct(n)
    \/ \E p \in Ids, fns \in FnLists : ConvAct(p, fns)
    \/ \E p \in Ids, fns \in ZipFnLists : ZipConvAct(p, fns)
    \/ \E p \in Ids, val \in ConstVals : ConstAct(p, val)
    \/ \E p \in Ids : SkipAct(p)
    \/ \E p \in Ids, enable \in BOOLEAN : TrimWsAct(p, enable)
    \/ \E p \in Ids, tag \in Tags \cup {NoTag} : TagAct(p, tag)
    \/ \E p \in Ids, q \in Ids : AddAct(p, q)
    \/ \E p \in Ids, q \in Ids : OrAct(p, q)
    \/ \E p \in Ids, b \in Bounds : StarAct(p, b[1], b[2])
    \/ \E p \in Ids : SepListAct(p, [str |-> <<",">>])
    \/ \E p \in Ids, q \in Ids : SepListAct(p, [parser |-> q])
    \/ \E p \in Ids, q \in Ids, name \in {"count", "echo"} :
          ContextualAct(p, [name |-> name, tok |-> q])
    \/ \E recipe_fn \in {"parens", "nested"} : RecursiveCall(recipe_fn)

Next ==
    \/ Room /\ Build
    \/ RecursiveBind
    \/ RecursiveReturn
    \/ \E p \in Ids, s \in Texts(Alphabet, MaxRunLen), i \in 0..MaxRunLen :
          i <= Len(s) /\ RunAct(p, s, i)
    \/ \E p \in Ids, s \in Texts(Alphabet, MaxRunLen) : ParseAct(p, s)

Spec == Init /\ [][Next]_vars

(***************************************************************************)
(* C3 (as stated): parse reports no result (returns None) exactly when     *)
(* run(text, 0) fails or succeeds without consuming the whole text, and    *)
(* otherwise returns that run's result.                                    *)
(***************************************************************************)
C3_ParseNoResultIff ==
    last.op = "parse" =>
        LET r == Run(heap, last.p, last.s, 0)
        IN  /\ (last.ret = Value(NoneV)) <=>
                   (r.st = "none" \/ (r.st = "ok" /\ r.i # Len(last.s)))
            /\ (r.st = "ok" /\ r.i = Len(last.s)) => last.ret = Value(r.r)

(***************************************************************************)
(* C10: parsers are immutable values.                                      *)
(***************************************************************************)
Attachers == {"conv", "zipconv", "const", "skip", "trim_ws", "tag"}

(* No step changes an existing parser, the binding of an unbound forward   *)
(* reference excepted.                                                     *)
FrameStep ==
    /\ Len(heap') >= Len(heap)
    /\ \A p \in 1..Len(heap) :
          \/ heap'[p] = heap[p]
          \/ /\ heap[p].cls = "ParserRef"
             /\ heap[p].ref = 0
             /\ heap'[p].ref # 0
             /\ heap'[p] = [heap[p] EXCEPT !.ref = heap'[p].ref]

AttacherStep == made' # made /\ made'.op \in Attachers

Pool ==
    LET o1 == Regex([heap |-> <<>>, cache |-> <<>>], "[0-9]+")
        o2 == Regex(o1.m, "([0-9])([a-z])?")
        o3 == Conv(o2.m, o2.id, <<"list">>)
        o4 == Chomp(o3.m, 1)
        o5 == Tag(o4.m, o4.id, "x")
        o6 == Ex(o5.m, <<"a">>)
        o7 == Chomp(o6.m, 0)
        o8 == Add(o7.m, o1.id, o6.id)
        o9 == Or(o8.m, o6.id, o4.id)
        o10 == Conv(o9.m, o1.id, <<"int">>)
        o11 == ZipConv(o10.m, o3.id, <<"list">>)
    IN  o11.m

InitPool ==
    /\ heap = Pool.heap
    /\ cache = Pool.cache
    /\ rec = NoFrame
    /\ made = NoCall
    /\ last = NoCall

Positions(s) == 0..Len(s)

(***************************************************************************)
(* C1.  A caller builds the three groupings of a, b, c with one operator   *)
(* (cls) and runs each on (s, i); the temporaries are dropped afterwards.  *)
(***************************************************************************)
Combine(m, cls, p, q) ==
    IF cls = "_ParserChain" THEN Add(m, p, q) ELSE Or(m, p, q)

AssocAct(cls, a, b, c, s, i) ==
    /\ Idle
    /\ LET ab == Combine(M, cls, a, b)
           left == Combine(ab.m, cls, ab.id, c)
           bc == Combine(left.m, cls, b, c)
           right == Combine(bc.m, cls, a, bc.id)
           flat == ParserListInit(right.m, cls, <<a, b, c>>)
           h == flat.m.heap
       IN  last' = [op |-> "assoc", cls |-> cls, a |-> a, b |-> b, c |-> c,
                    s |-> s, i |-> i,
                    left |-> Run(h, left.id, s, i),
                    right |-> Run(h, right.id, s, i),
                    flat |-> Run(h, flat.id, s, i)]
    /\ UNCHANGED <<heap, cache, rec, made>>

AssocOperands == {3, 4, 6, 8, 9}

AssocAlphabet == {"1", "a"}

(* A run leaves heap and cache as they are: every run is explored from the *)
(* state the grammar was built in (Fresh), not again after another run.    *)
Fresh == last.op = "none"

NextAssoc ==
    \E a \in AssocOperands, b \in AssocOperands, c \in AssocOperands,
       s \in Texts(AssocAlphabet, MaxLen) :
        \E i \in Positions(s) :
            \/ Fresh /\ AssocAct("_ParserChain", a, b, c, s, i)
            \/ Fresh /\ AssocAct("_ParserFirstMatch", a, b, c, s, i)

SpecAssoc == InitPool /\ [][NextAssoc]_vars

(* C1: (a op b) op c, a op (b op c) and the three-child composite built in *)
(* one call have the same outcome on every text and start position, for op *)
(* sequencing and for op ordered alternation.                              *)
C1_FlatteningUnobservable ==
    last.op = "assoc" =>
        /\ last.left = last.flat
        /\ last.right = last.flat

C1_Witness ==
    /\ last.op = "assoc"
    /\ last.cls = "_ParserChain"
    /\ heap[last.c].cls = "_ParserFirstMatch"
    /\ last.flat.st = "ok"
    /\ last.flat.i = 3
    /\ Len(last.flat.r.v) = 2
    /\ last.left = last.flat
    /\ last.right = last.flat

(***************************************************************************)
(* C2.  The caller builds p | q from two pool parsers, then (p | q) + c,   *)
(* and runs the newest parser.                                             *)
(***************************************************************************)
PoolSize == Len(Pool.heap)

Newest == Len(heap)

AltOperands == {1, 4, 5, 6, 8, 9}

AltAlphabet == {"1", "a"}

NextAlt ==
    \/ \E p \in AltOperands, q \in AltOperands :
          Len(heap) = PoolSize /\ OrAct(p, q)
    \/ \E c \in AltOperands :
          Len(heap) = PoolSize + 1 /\ AddAct(Newest, c)
    \/ \E s \in Texts(AltAlphabet, MaxLen) : \E i \in Positions(s) :
          Fresh /\ Len(heap) > PoolSize /\ RunAct(Newest, s, i)

SpecAlt == InitPool /\ [][NextAlt]_vars

IsAltThenC(p) ==
    /\ heap[p].cls = "_ParserChain"
    /\ Len(heap[p].parsers) = 2
    /\ heap[heap[p].parsers[1]].cls = "_ParserFirstMatch"

(* C2: a | b returns the outcome of the leftmost of a, b that succeeds at  *)
(* the position and fails only if both fail; and (a | b) + c fails         *)
(* whenever a succeeds and c fails after a, whatever b then c would do.    *)
C2_FirstMatch ==
    last.op = "run" =>
        /\ (made.op = "or" /\ last.p = made.ret) =>
              LET ra == Run(heap, made.self, last.s, last.i)
                  rb == Run(heap, made.other, last.s, last.i)
              IN  /\ ra.st = "ok" => last.ret = ra
                  /\ (ra.st = "none" /\ rb.st = "ok") => last.ret = rb
                  /\ (ra.st = "none" /\ rb.st = "none") <=> last.ret = RetNone
        /\ IsAltThenC(last.p) =>
              LET alt == heap[heap[last.p].parsers[1]]
                  ra == Run(heap, alt.parsers[1], last.s, last.i)
              IN  (ra.st = "ok"
                      /\ Run(heap, heap[last.p].parsers[2], last.s, ra.i).st = "none")
                  => last.ret = RetNone

(* a matched, a later alternative would have matched more, and (a | b) + c *)
(* failed although b then c succeeds.                                      *)
C2_Witness ==
    /\ last.op = "run"
    /\ IsAltThenC(last.p)
    /\ last.ret = RetNone
    /\ LET alt == heap[heap[last.p].parsers[1]]
           c == heap[last.p].parsers[2]
           ra == Run(heap, alt.parsers[1], last.s, last.i)
           rb == Run(heap, alt.parsers[2], last.s, last.i)
       IN  /\ ra.st = "ok" /\ rb.st = "ok" /\ rb.i > ra.i
           /\ Run(heap, c, last.s, ra.i).st = "none"
           /\ Run(heap, c, last.s, rb.i).st = "ok"

(***************************************************************************)
(* C4.  The caller builds p + q from two pool parsers, then (p + q) + c,   *)
(* and runs the newest parser.                                             *)
(***************************************************************************)
SeqOperands == {2, 3, 5, 6, 11}

SeqAlphabet == {"1", "a"}

NextSeq ==
    \/ \E p \in SeqOperands, q \in SeqOperands :
          Len(heap) = PoolSize /\ AddAct(p, q)
    \/ \E c \in SeqOperands :
          Len(heap) = PoolSize + 1 /\ AddAct(Newest, c)
    \/ \E s \in Texts(SeqAlphabet, MaxLen) : \E i \in Positions(s) :
          Fresh /\ Len(heap) > PoolSize /\ RunAct(Newest, s, i)

SpecSeq == InitPool /\ [][NextSeq]_vars

(* The children run left to right, each from where the previous one ended; *)
(* at[k] is the outcome of child k, or the first outcome that is not a     *)
(* success.                                                                *)
ChildRuns(kids, s, i) ==
    LET at[k \in 0..Len(kids)] ==
            IF k = 0 THEN Ret(NoneV, i)
            ELSE IF at[k - 1].st # "ok" THEN at[k - 1]
            ELSE Run(heap, kids[k], s, at[k - 1].i)
    IN  at

(* What one child result contributes to the list: the elements of a list  *)
(* (all of them, or the ones that are not absent), nothing for an absent   *)
(* result, the result itself otherwise.                                    *)
Contribution(absent_too, r) ==
    IF r.t = "list"
    THEN IF absent_too THEN r.v ELSE SelectSeq(r.v, LAMBDA z : z.t # "none")
    ELSE IF r.t = "none" THEN <<>> ELSE <<r>>

Spliced(absent_too, runs, n) ==
    LET cat[k \in 0..n] ==
            IF k = 0 THEN <<>>
            ELSE cat[k - 1] \o Contribution(absent_too, runs[k].r)
    IN  cat[n]

SeqOutcome(absent_too, p, s, i) ==
    LET kids == heap[p].parsers
        runs == ChildRuns(kids, s, i)
        n == Len(kids)
    IN  IF runs[n].st = "ok"
        THEN Ret(ListV(Spliced(absent_too, runs, n)), runs[n].i)
        ELSE runs[n]

IsSeqRun == last.op = "run" /\ made.op = "add" /\ last.p = made.ret

(* C4 (as stated): a sequence runs its children left to right, each from   *)
(* the end of the previous one, fails if any child fails, and its result   *)
(* is the concatenation of what the children contribute: a list result     *)
(* contributes all of its elements, an absent result nothing, any other    *)
(* result itself.                                                          *)
C4_SplicesAllElements ==
    IsSeqRun => last.ret = SeqOutcome(TRUE, last.p, last.s, last.i)

(* C4 (amended): as above, but a list result contributes its elements      *)
(* other than the absent ones (one level only).                            *)
C4_SequenceResult ==
    IsSeqRun => last.ret = SeqOutcome(FALSE, last.p, last.s, last.i)

(* Three children succeeded: one returned a list holding an absent         *)
(* element, one a tuple, one a tagged pair.                                *)
C4_Witness ==
    /\ IsSeqRun
    /\ last.ret.st = "ok"
    /\ LET kids == heap[last.p].parsers
           runs == ChildRuns(kids, last.s, last.i)
       IN  /\ Len(kids) = 3
           /\ \E k \in 1..3 :
                 /\ runs[k].r.t = "list"
                 /\ \E e \in 1..Len(runs[k].r.v) : runs[k].r.v[e] = NoneV
           /\ \E k \in 1..3 : runs[k].r.t = "tuple"
           /\ \E k \in 1..3 : runs[k].r.t = "tagged"
           /\ Len(last.ret.r.v) = 3

(***************************************************************************)
(* C5.  The caller builds star(p, at_least, at_most) over a pool parser    *)
(* and runs it.                                                            *)
(***************************************************************************)
StarOperands == {1, 3, 4, 5, 7, 9}

StarBounds == {<<0, AtMostNone>>, <<2, AtMostNone>>, <<1, 2>>, <<0, 0>>, <<2, 1>>}

StarAlphabet == {"1", "a"}

NextStar ==
    \/ \E p \in StarOperands, b \in StarBounds :
          Len(heap) = PoolSize /\ StarAct(p, b[1], b[2])
    \/ \E s \in Texts(StarAlphabet, MaxLen) : \E i \in Positions(s) :
          Fresh /\ Len(heap) > PoolSize /\ RunAct(Newest, s, i)

SpecStar == InitPool /\ [][NextStar]_vars

IsStarRun == last.op = "run" /\ made.op = "star" /\ last.p = made.ret

(* C5: when the run of star(p, at_least, at_most) at i returns, p was      *)
(* applied from i, each time from the end of the previous success, until   *)
(* its first failure or at_most successes; with n the number of successes  *)
(* the run succeeds iff n >= at_least, then ending where the last success  *)
(* ended (at i with an empty list when n = 0), and otherwise fails.        *)
C5_Repeat ==
    (IsStarRun /\ last.ret.st \in {"ok", "none"}) =>
        LET cap == IF made.at_most = AtMostNone
                   THEN Len(last.s) - last.i + 1 ELSE made.at_most
            at[k \in 0..cap] ==
                IF k = 0 THEN Ret(NoneV, last.i)
                ELSE IF at[k - 1].st # "ok" THEN RetNone
                ELSE Run(heap, made.self, last.s, at[k - 1].i)
            n == Cardinality({k \in 1..cap : at[k].st = "ok"})
        IN  /\ last.ret.st = "ok" <=> n >= made.at_least
            /\ last.ret.st = "ok" =>
                  /\ last.ret.i = at[n].i
                  /\ n = 0 => last.ret = Ret(ListV(<<>>), last.i)
            /\ last.ret.st = "none" => last.ret = RetNone

(* p succeeded once, at_least is 2, and the repetition failed. *)
C5_Witness ==
    /\ IsStarRun
    /\ made.at_least = 2
    /\ last.ret = RetNone
    /\ LET first == Run(heap, made.self, last.s, last.i)
       IN  /\ first.st = "ok"
           /\ Run(heap, made.self, last.s, first.i).st = "none"

(***************************************************************************)
(* C6.  The caller builds seplist(p, sep) over pool parsers, sep a string  *)
(* or a parser, and runs it.                                               *)
(***************************************************************************)
MaxSepLen == 5

SepItems == {1, 3, 4, 5, 10}

SepParsers == {4, 5}

SepAlphabet == {"1", ","}

NextSep ==
    \/ \E p \in SepItems :
          Len(heap) = PoolSize /\ SepListAct(p, [str |-> <<",">>])
    \/ \E p \in SepItems, q \in SepParsers :
          Len(heap) = PoolSize /\ SepListAct(p, [parser |-> q])
    \/ \E s \in Texts(SepAlphabet, MaxSepLen) : \E i \in Positions(s) :
          Fresh /\ Len(heap) > PoolSize /\ RunAct(Newest, s, i)

SpecSep == InitPool /\ [][NextSep]_vars

IsSepRun == last.op = "run" /\ made.op = "seplist" /\ last.p = made.ret

(* The parser that recognizes the separator: sep itself, or ex(sep). *)
SepParser ==
    IF "str" \in DOMAIN made.sep
    THEN CacheHit(cache, [op |-> "ex", z |-> made.sep.str])
    ELSE made.sep.parser

(* C6 (as stated): seplist(p, sep) fails unless a first item matches, then *)
(* matches (sep then p) pairs as long as it can; its result is the list    *)
(* whose k-th element is the result of the k-th matched item, and it ends  *)
(* where the last matched item ended.                                      *)
C6_ItemResultsOnly ==
    IsSepRun =>
        LET cap == Len(last.s) + 1
            it[k \in 1..cap] ==
                IF k = 1 THEN Run(heap, made.self, last.s, last.i)
                ELSE IF it[k - 1].st # "ok" THEN RetNone
                ELSE LET sp == Run(heap, SepParser, last.s, it[k - 1].i)
                     IN  IF sp.st # "ok" THEN RetNone
                         ELSE Run(heap, made.self, last.s, sp.i)
            n == Cardinality({k \in 1..cap : it[k].st = "ok"})
        IN  IF n = 0 THEN last.ret = RetNone
            ELSE last.ret = Ret(ListV([k \in 1..n |-> it[k].r]), it[n].i)

(***************************************************************************)
(* C7.  The caller calls recursive(recipe_fn, arity) once and then runs    *)
(* and parses with the placeholders and the definitions.                   *)
(***************************************************************************)
MaxParenLen == 4

ParenAlphabet == {"(", ")"}

NextRec ==
    \/ \E recipe_fn \in {"parens", "nested"} :
          Len(heap) = 0 /\ RecursiveCall(recipe_fn)
    \/ RecursiveBind
    \/ RecursiveReturn
    \/ \E p \in Ids, s \in Texts(ParenAlphabet, MaxParenLen) :
          \E i \in Positions(s) :
              Fresh /\ made.op = "recursive" /\ RunAct(p, s, i)
    \/ \E p \in Ids, s \in Texts(ParenAlphabet, MaxParenLen) :
          Fresh /\ made.op = "recursive" /\ ParseAct(p, s)

SpecRec == Init /\ [][NextRec]_vars

(* "(" n times then ")" n times, n >= 1 *)
IsNest(s) ==
    /\ Len(s) >= 2
    /\ Len(s) % 2 = 0
    /\ \A k \in 1..Len(s) : s[k] = IF 2 * k <= Len(s) THEN "(" ELSE ")"

Refs == {p \in Ids : heap[p].cls = "ParserRef"}

C7_Protocol ==
    /\ rec.pc = "bind" =>
          /\ Len(rec.tbds) = rec.arity
          /\ Len(rec.actuals) = rec.arity
          /\ Refs = {rec.tbds[k] : k \in 1..rec.arity}
          /\ \A k \in 1..rec.arity :
                heap[rec.tbds[k]].ref = IF k < rec.k THEN rec.actuals[k] ELSE 0
    /\ made.op = "recursive" =>
          /\ Len(made.tbds) = made.arity
          /\ Len(made.actuals) = made.arity
          /\ made.arity = RecipeArity(made.recipe_name)
          /\ Refs = {made.tbds[k] : k \in 1..made.arity}
          /\ \A k \in 1..made.arity :
                /\ heap[made.tbds[k]].ref = made.actuals[k]
                /\ made.actuals[k] \notin Refs
          /\ last.op = "run" =>
                \A k \in 1..made.arity :
                    last.p = made.tbds[k] =>
                        last.ret = Run(heap, made.actuals[k], last.s, last.i)
          /\ (last.op = "parse" /\ last.p = made.actuals[1]) =>
                (last.ret # Value(NoneV) <=> IsNest(last.s))

(* C7: recursive() creates arity unbound placeholders, calls the recipe,   *)
(* binds placeholder k to the k-th definition the recipe returned, each    *)
(* exactly once and never again, and returns the definitions (not the      *)
(* placeholders); from then on a placeholder runs as its definition does,  *)
(* so the parentheses grammar accepts exactly the properly nested texts.   *)
C7_TwoPhase ==
    /\ []C7_Protocol
    /\ [][\A p \in Refs : heap[p].ref # 0 => heap'[p].ref = heap[p].ref]_vars

(* A placeholder, run on "(())", consumed it all. *)
C7_Witness ==
    /\ made.op = "recursive"
    /\ last.op = "run"
    /\ last.p \in Refs
    /\ last.s = <<"(", "(", ")", ")">>
    /\ last.ret.st = "ok"
    /\ last.ret.i = 4

(***************************************************************************)
(* C8.  The caller builds contextual(p, recipe_fn) over pool parsers and   *)
(* runs it.                                                                *)
(***************************************************************************)
CtxOperands == {1, 4, 6, 10}

TokOperands == {4, 5, 6}

CtxAlphabet == {"2", "a"}

NextCtx ==
    \/ \E p \in CtxOperands, q \in TokOperands, name \in {"count", "echo"} :
          Len(heap) = PoolSize /\ ContextualAct(p, [name |-> name, tok |-> q])
    \/ \E s \in Texts(CtxAlphabet, MaxLen) : \E i \in Positions(s) :
          Fresh /\ Len(heap) > PoolSize /\ RunAct(Newest, s, i)

SpecCtx == InitPool /\ [][NextCtx]_vars

IsCtxRun == last.op = "run" /\ made.op = "contextual" /\ last.p = made.ret

(* C8: contextual(p, recipe_fn) run at i runs p at i; if p fails the run   *)
(* fails without calling the recipe (a recipe that would raise on the      *)
(* missing context does not); otherwise the outcome is that of the parser  *)
(* recipe_fn(context) run from where p ended, the context result being no  *)
(* part of it.                                                             *)
C8_Contextual ==
    IsCtxRun =>
        LET context_ret == Run(heap, made.self, last.s, last.i)
            second == CallRecipe(heap, made.recipe, context_ret.r)
        IN  /\ context_ret.st = "none" => last.ret = RetNone
            /\ context_ret.st = "ok" =>
                  IF second.raised THEN last.ret = Raised
                  ELSE last.ret = Run(second.h, second.id, last.s, context_ret.i)

(* The count read as context was 2 and two tokens followed. *)
C8_Witness ==
    /\ IsCtxRun
    /\ made.recipe.name = "count"
    /\ Run(heap, made.self, last.s, last.i) = Ret(IntV(2), last.i + 1)
    /\ last.ret = Ret(ListV(<<StrV(<<"a">>), StrV(<<"a">>)>>), last.i + 3)

(***************************************************************************)
(* C9.  The conversion pipeline of run.                                    *)
(***************************************************************************)
(* The pipeline as the claim describes it: in attachment order, each       *)
(* conversion receiving the previous output; the output of const(v) is the *)
(* new result for every v.                                                 *)
RECURSIVE ClaimedConvert(_, _, _)
ClaimedConvert(conversions, k, result) ==
    IF k > Len(conversions) THEN Value(result)
    ELSE LET c == conversions[k]
             r == ApplyConv(c, result)
         IN  IF c.c = "const" THEN ClaimedConvert(conversions, k + 1, c.v)
             ELSE IF r = SKIP THEN ClaimedConvert(conversions, k + 1, NoneV)
             ELSE IF r = NoneV THEN RetNone
             ELSE IF r = RAISE THEN Raised
             ELSE ClaimedConvert(conversions, k + 1, r)

(* C9 (as stated): run returns none exactly when the primitive fails or a  *)
(* conversion yields the fail signal; the omit signal makes the result     *)
(* absent while the match succeeds; any other conversion output, the       *)
(* constant of const(v) included for every v, becomes the new result; and  *)
(* a tag wraps the final result.                                           *)
C9_Pipeline ==
    last.op = "run" =>
        LET o == heap[last.p]
            ret == ParseFn(heap, o.parse_fn, last.s,
                           IF o.trim_ws THEN WsEnd(last.s, last.i) ELSE last.i)
        IN  last.ret = IF ret.st # "ok" THEN ret
                       ELSE Finish(o, last.s, ret,
                                   ClaimedConvert(o.conversions, 1, ret.r))

(***************************************************************************)
(* C11.  The caller attaches a pipeline operation to a pool composite      *)
(* (8 is a chain, 9 a first-match), composes the parser it got with a      *)
(* pool parser, on either side and with either operator, and runs the new  *)
(* composite.                                                              *)
(***************************************************************************)
Composites == {8, 9}

FinalOperands == {4, 8, 9}

FinalAlphabet == {"1", "a", " "}

ListClasses == {"_ParserChain", "_ParserFirstMatch"}

NextFinal ==
    \/ \E b \in Composites, fns \in {<<>>, <<"list", "nonempty">>} :
          made.op = "none" /\ ConvAct(b, fns)
    \/ \E b \in Composites : made.op = "none" /\ ConstAct(b, IntV(7))
    \/ \E b \in Composites : made.op = "none" /\ SkipAct(b)
    \/ \E b \in Composites : made.op = "none" /\ TrimWsAct(b, TRUE)
    \/ \E b \in Composites : made.op = "none" /\ TagAct(b, "x")
    \/ \E c \in FinalOperands : made.op \in Attachers /\ AddAct(made.ret, c)
    \/ \E c \in FinalOperands : made.op \in Attachers /\ AddAct(c, made.ret)
    \/ \E c \in FinalOperands : made.op \in Attachers /\ OrAct(made.ret, c)
    \/ \E c \in FinalOperands : made.op \in Attachers /\ OrAct(c, made.ret)
    \/ \E s \in Texts(FinalAlphabet, MaxLen) : \E i \in Positions(s) :
          Fresh /\ made.op \in {"add", "or"} /\ RunAct(made.ret, s, i)

SpecFinal == InitPool /\ [][NextFinal]_vars

(* The parsers an attacher made out of a pool composite. *)
Finalized == {p \in {made.self, made.other} : p > PoolSize}

(* The composite a finalized parser was made from: it shares its primitive *)
(* function.                                                               *)
BaseOf(f) == CHOOSE b \in Composites : heap[b].parse_fn = heap[f].parse_fn

(* The children the new composite must have: a finalized operand is one    *)
(* child, a composite of the same class gives its children.                *)
OperandKids(cls, x) ==
    IF x \in Finalized THEN <<x>>
    ELSE IF heap[x].cls = cls THEN heap[x].parsers
    ELSE <<x>>

FirstOutcome(runs, n) ==
    IF \E k \in 1..n : runs[k].st # "none"
    THEN runs[CHOOSE k \in 1..n :
                 runs[k].st # "none" /\ \A j \in 1..(k - 1) : runs[j].st = "none"]
    ELSE RetNone

(* C11: a parser of a composite class carries no conversion, tag or trim   *)
(* flag; the parser an attacher makes from a composite is a plain Parser,  *)
(* which a later + or | of either class takes as one child; run, it        *)
(* applies its conversions, tag and trim to the composite's own match, and *)
(* the enclosing composite's outcome is built from that outcome and the    *)
(* siblings' own outcomes.                                                 *)
C11_Finalization ==
    /\ \A p \in Ids :
          heap[p].cls \in ListClasses =>
              /\ heap[p].conversions = <<>>
              /\ heap[p].tag = NoTag
              /\ ~heap[p].trim_ws
    /\ (made.op \in {"add", "or"} /\ Finalized # {}) =>
          LET cls == heap[made.ret].cls
              kids == OperandKids(cls, made.self) \o OperandKids(cls, made.other)
          IN  /\ \A f \in Finalized : heap[f].cls = "Parser"
              /\ heap[made.ret].parsers = kids
              /\ last.op = "run" =>
                    /\ \A f \in Finalized :
                          LET o == heap[f]
                              j == IF o.trim_ws THEN WsEnd(last.s, last.i)
                                   ELSE last.i
                              own == Run(heap, BaseOf(f), last.s, j)
                          IN  Run(heap, f, last.s, last.i) =
                                  IF own.st # "ok" THEN own
                                  ELSE Finish(o, last.s, own,
                                              Convert(o.conversions, 1, own.r))
                    /\ LET n == Len(kids)
                           runs == ChildRuns(kids, last.s, last.i)
                           tries == [k \in 1..n |->
                                        Run(heap, kids[k], last.s, last.i)]
                       IN  last.ret =
                               IF cls = "_ParserFirstMatch"
                               THEN FirstOutcome(tries, n)
                               ELSE IF runs[n].st = "ok"
                               THEN Ret(ListV(Spliced(FALSE, runs, n)), runs[n].i)
                               ELSE runs[n]

(* A tagged chain was put in front of a sibling: two children, and the tag *)
(* wraps the chain's own result only.                                      *)
C11_Witness ==
    /\ made.op = "add"
    /\ made.self \in Finalized
    /\ heap[made.self].tag = "x"
    /\ heap[BaseOf(made.self)].cls = "_ParserChain"
    /\ heap[made.ret].parsers = <<made.self, made.other>>
    /\ last.op = "run"
    /\ last.ret.st = "ok"
    /\ Len(last.ret.r.v) = 2
    /\ last.ret.r.v[1] = Tagged("x", ListV(<<StrV(<<"1">>)>>))
    /\ last.ret.r.v[2].t = "str"

(***************************************************************************)
(* C12.  Termination of star, over the parsers built in SpecStar (each     *)
(* operand's own runs return).                                             *)
(***************************************************************************)
(* C12 (as stated): every run of star(p, at_least, at_most) returns,       *)
(* having called p.run at most at_most times, or with at_most None at most *)
(* (remaining input length + 1) times, also when p can succeed without     *)
(* consuming input.                                                        *)
C12_StarTerminates ==
    IsStarRun =>
        LET loop == StarCalls(heap, heap[last.p].parse_fn, last.s, last.i, 0, 0)
            limit == IF made.at_most = AtMostNone
                     THEN Len(last.s) - last.i + 1 ELSE made.at_most
        IN  /\ last.ret.st # "hang"
            /\ loop.ends
            /\ loop.calls <= limit

====
